---- MODULE Spec2Model ----
(***************************************************************************)
(* Model of the background-task layer of adf_mcp_server.py: the task       *)
(* registry TASKS (guarded by TASKS_LOCK), the limiter TASKS_SEM, the      *)
(* submission endpoint adf_analyze_file, the worker _analyze_file_worker   *)
(* and the query endpoints get_task / list_tasks.                          *)
(*                                                                         *)
(* Conventions.  Python None is the string "None" in string-valued fields  *)
(* and the empty tuple in `result`.  progress (a float in the code) is     *)
(* kept in tenths: 0.1 is 1, 1.0 is 10.  uuid4() is a fresh id: the next   *)
(* index of the registry, which is kept in insertion order like the dict.  *)
(* _now_iso() is the reading of `clock` as a string.  Every registry       *)
(* operation runs under TASKS_LOCK and is one atomic step; steps of a      *)
(* thread that touch only its locals are merged into its next registry or  *)
(* semaphore operation.                                                    *)
(*                                                                         *)
(* Specifications.  Spec: few submissions, every kind of request.          *)
(* SpecLoad: more submissions than slots, core requests.  SpecQ: SpecLoad  *)
(* with a client calling get_task and list_tasks.  FairSpec: SpecLoad      *)
(* with fairly scheduled worker threads.  SpecCaller: SpecQ with a client  *)
(* that writes into the records it is handed.  SpecClock: SpecLoad with    *)
(* time passing, fewer submissions.  SpecSync: a client of the             *)
(* synchronous tools.                                                      *)
(***************************************************************************)
EXTENDS Integers, Sequences, FiniteSets, TLC

\* ---------------------------------------------------------------- bounds
MaxTasks == 2      \* submissions in one behaviour, any request
MaxLoad == 3       \* submissions in one behaviour under load (core requests)
MaxPolled == 2     \* submissions in one behaviour with queries
MaxHanded == 1     \* submissions in one behaviour with a writing caller
MaxTimed == 1      \* submissions in one behaviour with a running clock
MaxClock == 2      \* ticks of the clock in one behaviour
\* the series a file may hold: its length and the number of NaN entries
Series == { [len |-> 9, nan |-> 0], [len |-> 13, nan |-> 0],
            [len |-> 13, nan |-> 3], [len |-> 13, nan |-> 4] }

\* ------------------------------------------------------ program constants
MAX_CONCURRENT == 2
MinLen == 10

None == "None"
NoResult == <<>>
Empty == <<>>
NoSeries == [len |-> 0, nan |-> 0]

VARIABLES
  TASKS,      \* the registry: sequence of task records, index = task id
  TASKS_SEM,  \* free slots of the semaphore
  cpc,        \* per task id: position of the adf_analyze_file call
  resp,       \* per task id: what the call returned (Empty before)
  wpc,        \* per task id: position of its worker thread
  series,     \* per task id: worker local time_series [len, nan]
  adf,        \* per task id: arguments of the adfuller calls made
  reply,      \* last get_task / list_tasks response
  clock,      \* the wall clock read by _now_iso
  sync        \* last call of a synchronous tool: arguments and response

vars == <<TASKS, TASKS_SEM, cpc, resp, wpc, series, adf, reply, clock, sync>>

MaxIds ==
  CHOOSE m \in {MaxTasks, MaxLoad, MaxPolled, MaxTimed, MaxHanded} :
    \A n \in {MaxTasks, MaxLoad, MaxPolled, MaxTimed, MaxHanded} : n <= m

TaskIds == 1..MaxIds

\* ------------------------------------------------------------- requests
ExistingPaths == {"ok.csv", "ok.txt"}

Req(csv, txt, regression, max_lags, lags_method, analysis_type) ==
  [csv |-> csv, txt |-> txt, regression |-> regression,
   max_lags |-> max_lags, lags_method |-> lags_method,
   analysis_type |-> analysis_type]

Requests ==
  { Req("ok.csv", None, "c", 10, "aic", "log_analysis"),
    Req("", "ok.txt", "ct", 2, "t-stat", "full"),
    Req("ok.csv", None, "x", 10, "aic", "quick"),
    Req(None, "ok.txt", "c", 10, "t", "quick"),
    Req("ok.csv", "ok.txt", "c", 10, "aic", "log_analysis"),
    Req(None, None, "c", 10, "aic", "log_analysis"),
    Req("missing.csv", None, "c", 10, "aic", "log_analysis") }

\* the requests of the behaviours under load: the default request on an
\* existing file, and one without a file argument
CoreRequests ==
  { Req("ok.csv", None, "c", 10, "aic", "log_analysis"),
    Req(None, None, "c", 10, "aic", "log_analysis") }

\* Python truthiness of an Optional[str]
Truthy(s) == s # None /\ s # ""

\* csv or txt
FilePath(p) == IF Truthy(p.csv) THEN p.csv ELSE p.txt

\* (csv and txt) or (not csv and not txt)
BadFileArgs(p) ==
  \/ Truthy(p.csv) /\ Truthy(p.txt)
  \/ ~Truthy(p.csv) /\ ~Truthy(p.txt)

\* not os.path.exists(file_path)
FileMissing(p) == FilePath(p) \notin ExistingPaths

\* the check of os.path.exists left out
PreValidationErrorNoExists(p) ==
  IF BadFileArgs(p) THEN "file_args" ELSE None

PreValidationError(p) ==
  IF BadFileArgs(p) THEN "file_args"
  ELSE IF FileMissing(p) THEN "file_not_found"
  ELSE None

\* ------------------------------------------------------------- registry
\* datetime.now().isoformat(): the reading of the clock as a string
IsoFormat(n) == "t" \o ToString(n)

NowIso == IsoFormat(clock)

NewTask(task_type, params) ==
  [type |-> task_type, params |-> params, status |-> "queued",
   progress |-> 0, created_at |-> NowIso, started_at |-> None,
   completed_at |-> None, result |-> NoResult, error |-> None,
   traceback |-> None]

\* _create_task: the record is stored under a fresh id
CreateTask(T, task_type, params) ==
  Append(T, [id |-> Len(T) + 1] @@ NewTask(task_type, params))

\* dict.update(**updates)
Update(rec, updates) ==
  [f \in DOMAIN rec \cup DOMAIN updates |->
     IF f \in DOMAIN updates THEN updates[f] ELSE rec[f]]

\* an update applied to every record of the registry
SetTaskAll(T, task_id, updates) ==
  [i \in DOMAIN T |-> Update(T[i], updates)]

\* _set_task: ignored when the id is unknown
SetTask(T, task_id, updates) ==
  IF task_id \in DOMAIN T
    THEN [T EXCEPT ![task_id] = Update(@, updates)]
    ELSE T

\* a lookup that shows a record only once its job has started
GetTaskRecStartedOnly(T, task_id) ==
  IF task_id \in DOMAIN T /\ T[task_id].status # "queued"
    THEN T[task_id] ELSE Empty

\* a lookup that answers an unknown id with an error record
GetTaskRecNotFound(T, task_id) ==
  IF task_id \in DOMAIN T THEN T[task_id] ELSE [error |-> "not found"]

\* _get_task: dict(TASKS.get(task_id, {}))
GetTaskRec(T, task_id) ==
  IF task_id \in DOMAIN T THEN T[task_id] ELSE Empty

\* a listing that leaves out the finished tasks
ListTaskRecsActive(T) ==
  SelectSeq(T, LAMBDA r : r.status \notin {"succeeded", "failed"})

\* _list_tasks
ListTaskRecs(T) == [i \in DOMAIN T |-> T[i]]

Init ==
  /\ TASKS = <<>>
  /\ TASKS_SEM = MAX_CONCURRENT
  /\ cpc = [t \in TaskIds |-> "idle"]
  /\ resp = [t \in TaskIds |-> Empty]
  /\ wpc = [t \in TaskIds |-> "none"]
  /\ series = [t \in TaskIds |-> NoSeries]
  /\ adf = [t \in TaskIds |-> <<>>]
  /\ reply = [op |-> "none"]
  /\ clock = 0
  /\ sync = [op |-> "none"]

\* ------------------------------------------------- submission endpoint
\* adf_analyze_file up to and including _create_task: the request is
\* validated (no state is touched) and the record is created as queued
SubmitUpTo(p, n) ==
  /\ Len(TASKS) < n
  /\ LET t == Len(TASKS) + 1 IN
       /\ TASKS' = CreateTask(TASKS, "adf_analyze_file", p)
       /\ cpc' = [cpc EXCEPT ![t] =
                    IF PreValidationError(p) # None THEN "reject" ELSE "start"]
  /\ UNCHANGED <<TASKS_SEM, resp, wpc, series, adf, reply, clock, sync>>

Submit(p) == SubmitUpTo(p, MaxTasks)

SubmitLoad(p) == SubmitUpTo(p, MaxLoad)

SubmitPolled(p) == SubmitUpTo(p, MaxPolled)

SubmitTimed(p) == SubmitUpTo(p, MaxTimed)

SubmitHanded(p) == SubmitUpTo(p, MaxHanded)

\* the rejected path without its return: the worker is started as well
SubmitRejectNoReturn(t) ==
  /\ cpc[t] = "reject"
  /\ LET msg == PreValidationError(TASKS[t].params) IN
       /\ TASKS' = SetTask(TASKS, t, [status |-> "failed", error |-> msg,
                                      completed_at |-> NowIso])
       /\ resp' = [resp EXCEPT ![t] =
                     [status |-> "queued", task_id |-> t,
                      type |-> "adf_analyze_file"]]
  /\ wpc' = [wpc EXCEPT ![t] = "acquire"]
  /\ cpc' = [cpc EXCEPT ![t] = "returned"]
  /\ UNCHANGED <<TASKS_SEM, series, adf, reply, clock, sync>>

\* the rejected path: _set_task(failed) and the failed response
SubmitReject(t) ==
  /\ cpc[t] = "reject"
  /\ LET msg == PreValidationError(TASKS[t].params) IN
       /\ TASKS' = SetTask(TASKS, t, [status |-> "failed", error |-> msg,
                                      completed_at |-> NowIso])
       /\ resp' = [resp EXCEPT ![t] =
                     [status |-> "failed", task_id |-> t,
                      type |-> "adf_analyze_file", error |-> msg]]
  /\ cpc' = [cpc EXCEPT ![t] = "returned"]
  /\ UNCHANGED <<TASKS_SEM, wpc, series, adf, reply, clock, sync>>

\* the accepted path made to wait for a free slot before it answers
SubmitStartBlocking(t) ==
  /\ cpc[t] = "start"
  /\ TASKS_SEM > 0
  /\ wpc' = [wpc EXCEPT ![t] = "acquire"]
  /\ resp' = [resp EXCEPT ![t] =
                [status |-> "queued", task_id |-> t,
                 type |-> "adf_analyze_file"]]
  /\ cpc' = [cpc EXCEPT ![t] = "returned"]
  /\ UNCHANGED <<TASKS, TASKS_SEM, series, adf, reply, clock, sync>>

\* the accepted path: _start_background and the queued response
SubmitStart(t) ==
  /\ cpc[t] = "start"
  /\ wpc' = [wpc EXCEPT ![t] = "acquire"]
  /\ resp' = [resp EXCEPT ![t] =
                [status |-> "queued", task_id |-> t,
                 type |-> "adf_analyze_file"]]
  /\ cpc' = [cpc EXCEPT ![t] = "returned"]
  /\ UNCHANGED <<TASKS, TASKS_SEM, series, adf, reply, clock, sync>>

\* ------------------------------------------------------ ADFTester (core)
Min(a, b) == IF a < b THEN a ELSE b

RegressionTypes == {"n", "c", "ct"}
LagsMethods == {"aic", "bic", "t-stat"}

\* the check of the regression type left out
TestStationarityErrorNoRegression(n, regression, max_lags, lags_method) ==
  IF n < MinLen THEN "len"
  ELSE IF lags_method \notin LagsMethods THEN "lags_method"
  ELSE IF max_lags < 0 THEN "max_lags"
  ELSE None

\* the check of the length after the NaN removal left out
TestStationarityErrorNoLen(n, regression, max_lags, lags_method) ==
  IF regression \notin RegressionTypes THEN "regression"
  ELSE IF lags_method \notin LagsMethods THEN "lags_method"
  ELSE IF max_lags < 0 THEN "max_lags"
  ELSE None

\* the check of the lag-selection method left out
TestStationarityErrorNoLagsMethod(n, regression, max_lags, lags_method) ==
  IF n < MinLen THEN "len"
  ELSE IF regression \notin RegressionTypes THEN "regression"
  ELSE IF max_lags < 0 THEN "max_lags"
  ELSE None

\* the ValueError raised by test_stationarity before adfuller, or None
TestStationarityError(n, regression, max_lags, lags_method) ==
  IF n < MinLen THEN "len"
  ELSE IF regression \notin RegressionTypes THEN "regression"
  ELSE IF lags_method \notin LagsMethods THEN "lags_method"
  ELSE IF max_lags < 0 THEN "max_lags"
  ELSE None

\* a clamp to half the length, without the - 1
ClampLagsHalf(max_lags, n) == Min(max_lags, n \div 2)

\* max_lags = min(max_lags, len(data) // 2 - 1)
ClampLags(max_lags, n) == Min(max_lags, (n \div 2) - 1)

\* what adfuller does when it is called: it raises, or it returns its
\* statistic, its p-value (in hundredths) and the lag it used
AdfullerOutcomes ==
  { [raises |-> TRUE],
    [raises |-> FALSE, statistic |-> -4, p_value |-> 1, lags_used |-> 0],
    [raises |-> FALSE, statistic |-> -1, p_value |-> 20, lags_used |-> 1] }

\* result_dict of test_stationarity
ResultDict(regression, lags_method, call, ret) ==
  [statistic |-> ret.statistic, p_value |-> ret.p_value,
   critical_values |-> [k \in {"1%", "5%", "10%"} |-> -3],
   is_stationary |-> (ret.p_value < 5), lags_used |-> ret.lags_used,
   regression_type |-> regression, regression_description |-> regression,
   lags_method |-> lags_method, lags_method_description |-> lags_method,
   data_length |-> call.n, max_lags |-> call.maxlag]

\* test_stationarity on a list: the NaN entries are removed, the checks
\* raise ValueError, adfuller is called with the clamped lag and its
\* exception becomes a RuntimeError; calls are the adfuller calls made
TestStationarity(data, regression, max_lags, lags_method, ret) ==
  LET n == data.len - data.nan
      err == TestStationarityError(n, regression, max_lags, lags_method)
      call == [n |-> n, maxlag |-> ClampLags(max_lags, n)] IN
    IF err # None THEN [raised |-> TRUE, error |-> err, calls |-> <<>>]
    ELSE IF ret.raises
      THEN [raised |-> TRUE, error |-> "adfuller", calls |-> <<call>>]
    ELSE [raised |-> FALSE, calls |-> <<call>>,
          result |-> ResultDict(regression, lags_method, call, ret)]

\* the first key of keys that the dictionary d lacks, or None
MissingKey(d, keys) ==
  LET missing == { i \in DOMAIN keys : keys[i] \notin DOMAIN d } IN
    IF missing = {} THEN None
    ELSE keys[CHOOSE i \in missing : \A j \in missing : i <= j]

\* get_interpretation: the keys are read in the order of the code; a key
\* that is missing raises KeyError
GetInterpretation(result) ==
  LET k1 == MissingKey(result, <<"statistic", "p_value", "is_stationary",
                                 "critical_values">>) IN
    IF k1 # None THEN [raised |-> TRUE, error |-> k1]
    ELSE
      LET k2 == MissingKey(result.critical_values, <<"1%", "5%", "10%">>)
          k3 == MissingKey(result, <<"regression_description",
                                     "lags_method_description", "lags_used",
                                     "data_length">>) IN
        IF k2 # None THEN [raised |-> TRUE, error |-> k2]
        ELSE IF k3 # None THEN [raised |-> TRUE, error |-> k3]
        ELSE [raised |-> FALSE, text |-> "interpretation"]

\* ---------------------------------------------------- synchronous tools
\* the lists a caller may pass: length and number of NaN entries
Lists == Series \cup { [len |-> 0, nan |-> 0], [len |-> 10, nan |-> 0],
                       [len |-> 12, nan |-> 0] }

SeriesNames == {"a", "b"}

\* the mappings a caller may pass to adf_batch_test
DataDicts ==
  UNION { [names -> Lists \ {[len |-> 10, nan |-> 0]}] :
            names \in SUBSET SeriesNames }

\* the critical values a caller may pass to adf_interpret
CriticalValues ==
  { [k \in {"1%", "5%", "10%"} |-> -3], [k \in {"5%"} |-> -3] }

\* the response of adf_test and the adfuller calls it made
AdfTestResponse(data, regression, max_lags, lags_method, ret) ==
  IF data.len < MinLen
    THEN [out |-> [status |-> "failed", error |-> "len"], calls |-> <<>>]
  ELSE IF regression \notin {"n", "c", "ct"}
    THEN [out |-> [status |-> "failed", error |-> "regression"],
          calls |-> <<>>]
  ELSE IF lags_method \notin {"aic", "bic", "t-stat"}
    THEN [out |-> [status |-> "failed", error |-> "lags_method"],
          calls |-> <<>>]
  ELSE
    LET r == TestStationarity(data, regression, max_lags, lags_method, ret)
    IN IF r.raised
         THEN [out |-> [status |-> "failed", error |-> r.error],
               calls |-> r.calls]
         ELSE [out |-> [status |-> "success", result |-> r.result],
               calls |-> r.calls]

AdfTest(data, regression, max_lags, lags_method, ret) ==
  /\ sync.op = "none"
  /\ sync' = [op |-> "adf_test", data |-> data, regression |-> regression,
              max_lags |-> max_lags, lags_method |-> lags_method,
              ret |-> ret] @@
             AdfTestResponse(data, regression, max_lags, lags_method, ret)
  /\ UNCHANGED <<TASKS, TASKS_SEM, cpc, resp, wpc, series, adf, reply, clock>>

\* one pass of the loop of adf_batch_test
BatchItem(data, regression, max_lags, lags_method, ret) ==
  IF data.len < MinLen
    THEN [out |-> [status |-> "failed", error |-> "len"], calls |-> <<>>]
  ELSE
    LET r == TestStationarity(data, regression, max_lags, lags_method, ret)
    IN IF r.raised
         THEN [out |-> [status |-> "failed", error |-> r.error],
               calls |-> r.calls]
         ELSE [out |-> [status |-> "success", result |-> r.result],
               calls |-> r.calls]

\* a batch without the try around one pass: the first series whose test
\* raises ends the whole call
AdfBatchTestResponseAbort(data_dict, regression, max_lags, lags_method, rets) ==
  IF DOMAIN data_dict = {}
    THEN [out |-> [status |-> "failed", error |-> "empty"], calls |-> <<>>]
  ELSE
    LET item(name) == BatchItem(data_dict[name], regression, max_lags,
                                lags_method, rets[name])
        raised == { name \in DOMAIN data_dict :
                      /\ data_dict[name].len >= MinLen
                      /\ item(name).out.status = "failed" } IN
      IF raised # {}
        THEN [out |-> [status |-> "failed", error |-> "exception"],
              calls |-> [name \in DOMAIN data_dict |-> item(name).calls]]
        ELSE [out |-> [status |-> "success",
                       results |-> [name \in DOMAIN data_dict |->
                                      item(name).out]],
              calls |-> [name \in DOMAIN data_dict |-> item(name).calls]]

\* the response of adf_batch_test and the adfuller calls made per name;
\* rets gives what adfuller does for each name
AdfBatchTestResponse(data_dict, regression, max_lags, lags_method, rets) ==
  IF DOMAIN data_dict = {}
    THEN [out |-> [status |-> "failed", error |-> "empty"], calls |-> <<>>]
  ELSE
    LET item(name) == BatchItem(data_dict[name], regression, max_lags,
                                lags_method, rets[name]) IN
      [out |-> [status |-> "success",
                results |-> [name \in DOMAIN data_dict |-> item(name).out]],
       calls |-> [name \in DOMAIN data_dict |-> item(name).calls]]

AdfBatchTest(data_dict, regression, max_lags, lags_method, rets) ==
  /\ sync.op = "none"
  /\ sync' = [op |-> "adf_batch_test", data_dict |-> data_dict,
              regression |-> regression, max_lags |-> max_lags,
              lags_method |-> lags_method, rets |-> rets] @@
             AdfBatchTestResponse(data_dict, regression, max_lags,
                                  lags_method, rets)
  /\ UNCHANGED <<TASKS, TASKS_SEM, cpc, resp, wpc, series, adf, reply, clock>>

\* the response of adf_interpret
AdfInterpretResponse(statistic, p_value, critical_values, regression) ==
  LET r == GetInterpretation([statistic |-> statistic, p_value |-> p_value,
                              critical_values |-> critical_values,
                              regression_type |-> regression]) IN
    IF r.raised THEN [status |-> "failed", error |-> r.error]
    ELSE [status |-> "success", interpretation |-> r.text]

AdfInterpret(statistic, p_value, critical_values, regression) ==
  /\ sync.op = "none"
  /\ sync' = [op |-> "adf_interpret", statistic |-> statistic,
              p_value |-> p_value, critical_values |-> critical_values,
              regression |-> regression,
              out |-> AdfInterpretResponse(statistic, p_value,
                                           critical_values, regression)]
  /\ UNCHANGED <<TASKS, TASKS_SEM, cpc, resp, wpc, series, adf, reply, clock>>

\* ---------------------------------------------------------------- worker
Params(t) == TASKS[t].params

FileType(p) == IF Truthy(p.csv) THEN "csv" ELSE "txt"

\* with TASKS_SEM: __enter__
Acquire(t) ==
  /\ wpc[t] = "acquire"
  /\ TASKS_SEM > 0
  /\ TASKS_SEM' = TASKS_SEM - 1
  /\ wpc' = [wpc EXCEPT ![t] = "set_running"]
  /\ UNCHANGED <<TASKS, cpc, resp, series, adf, reply, clock, sync>>

SetRunning(t) ==
  /\ wpc[t] = "set_running"
  /\ TASKS' = SetTask(TASKS, t, [status |-> "running",
                                 started_at |-> NowIso, progress |-> 1])
  /\ wpc' = [wpc EXCEPT ![t] = "resolve"]
  /\ UNCHANGED <<TASKS_SEM, cpc, resp, series, adf, reply, clock, sync>>

\* a progress update that stamps started_at again
ResolveRestamps(t) ==
  /\ wpc[t] = "resolve"
  /\ TASKS' = SetTask(TASKS, t, [progress |-> 2, started_at |-> NowIso])
  /\ wpc' = [wpc EXCEPT ![t] = "load"]
  /\ UNCHANGED <<TASKS_SEM, cpc, resp, series, adf, reply, clock, sync>>

\* the file path and type are resolved, progress 0.2
Resolve(t) ==
  /\ wpc[t] = "resolve"
  /\ TASKS' = SetTask(TASKS, t, [progress |-> 2])
  /\ wpc' = [wpc EXCEPT ![t] = "load"]
  /\ UNCHANGED <<TASKS_SEM, cpc, resp, series, adf, reply, clock, sync>>

\* an exception that leaves the block without releasing the slot
RaiseNoRelease(t) ==
  /\ TASKS_SEM' = TASKS_SEM
  /\ wpc' = [wpc EXCEPT ![t] = "except"]

\* an exception leaves the with block: __exit__ releases the slot and
\* control reaches the except clause
Raise(t) ==
  /\ TASKS_SEM' = TASKS_SEM + 1
  /\ wpc' = [wpc EXCEPT ![t] = "except"]

\* an early return that records the error and forgets the status
FailReturnNoStatus(t, msg) ==
  /\ TASKS' = SetTask(TASKS, t, [error |-> msg, completed_at |-> NowIso])
  /\ wpc' = [wpc EXCEPT ![t] = "exit"]

\* an early return after a data error: the record is failed, the with
\* block is still to be left
FailReturn(t, msg) ==
  /\ TASKS' = SetTask(TASKS, t, [status |-> "failed", error |-> msg,
                                 completed_at |-> NowIso])
  /\ wpc' = [wpc EXCEPT ![t] = "exit"]

\* the series a file can hold: a log_analysis csv is a series of counts
LoadableSeries(p) ==
  IF FileType(p) = "csv" /\ p.analysis_type = "log_analysis"
    THEN { s \in Series : s.nan = 0 }
    ELSE Series

\* the file is read (pd.read_csv / open): it raises, a column is missing,
\* or a series is obtained and progress becomes 0.5
Load(t) ==
  /\ wpc[t] = "load"
  /\ \/ /\ Raise(t)
        /\ UNCHANGED <<TASKS, series>>
     \/ /\ FileType(Params(t)) = "csv"
        /\ \E col \in {"timestamp_col", "value_col"} : FailReturn(t, col)
        /\ UNCHANGED <<TASKS_SEM, series>>
     \/ /\ \E s \in LoadableSeries(Params(t)) :
             series' = [series EXCEPT ![t] = s]
        /\ TASKS' = SetTask(TASKS, t, [progress |-> 5])
        /\ wpc' = [wpc EXCEPT ![t] = "validate"]
        /\ UNCHANGED TASKS_SEM
  /\ UNCHANGED <<cpc, resp, adf, reply, clock, sync>>

\* the checks without the second length check
ValidateNoSecondCheck(t) ==
  /\ wpc[t] = "validate"
  /\ LET n == series[t].len
         m == series[t].len - series[t].nan IN
       \/ /\ n < MinLen
          /\ FailReturn(t, "len")
          /\ UNCHANGED <<TASKS_SEM, series>>
       \/ /\ n >= MinLen
          /\ Raise(t)
          /\ UNCHANGED <<TASKS, series>>
       \/ /\ n >= MinLen
          /\ series' = [series EXCEPT ![t] = [len |-> m, nan |-> 0]]
          /\ TASKS' = SetTask(TASKS, t, [progress |-> 7])
          /\ wpc' = [wpc EXCEPT ![t] = "test"]
          /\ UNCHANGED TASKS_SEM
  /\ UNCHANGED <<cpc, resp, adf, reply, clock, sync>>

\* the checks without the assignment of the cleaned series
ValidateNoClean(t) ==
  /\ wpc[t] = "validate"
  /\ LET n == series[t].len
         m == series[t].len - series[t].nan IN
       \/ /\ n < MinLen
          /\ FailReturn(t, "len")
          /\ UNCHANGED <<TASKS_SEM, series>>
       \/ /\ n >= MinLen
          /\ Raise(t)
          /\ UNCHANGED <<TASKS, series>>
       \/ /\ n >= MinLen
          /\ m < MinLen
          /\ FailReturn(t, "valid_len")
          /\ UNCHANGED <<TASKS_SEM, series>>
       \/ /\ n >= MinLen
          /\ m >= MinLen
          /\ TASKS' = SetTask(TASKS, t, [progress |-> 7])
          /\ wpc' = [wpc EXCEPT ![t] = "test"]
          /\ UNCHANGED <<TASKS_SEM, series>>
  /\ UNCHANGED <<cpc, resp, adf, reply, clock, sync>>

\* the two length checks around the NaN removal, progress 0.7; np.isnan
\* raises on a series that is not numeric
Validate(t) ==
  /\ wpc[t] = "validate"
  /\ LET n == series[t].len
         m == series[t].len - series[t].nan IN
       \/ /\ n < MinLen
          /\ FailReturn(t, "len")
          /\ UNCHANGED <<TASKS_SEM, series>>
       \/ /\ n >= MinLen
          /\ Raise(t)
          /\ UNCHANGED <<TASKS, series>>
       \/ /\ n >= MinLen
          /\ m < MinLen
          /\ series' = [series EXCEPT ![t] = [len |-> m, nan |-> 0]]
          /\ FailReturn(t, "valid_len")
          /\ UNCHANGED TASKS_SEM
       \/ /\ n >= MinLen
          /\ m >= MinLen
          /\ series' = [series EXCEPT ![t] = [len |-> m, nan |-> 0]]
          /\ TASKS' = SetTask(TASKS, t, [progress |-> 7])
          /\ wpc' = [wpc EXCEPT ![t] = "test"]
          /\ UNCHANGED TASKS_SEM
  /\ UNCHANGED <<cpc, resp, adf, reply, clock, sync>>

\* adf_tester.test_stationarity: a ValueError of its own checks, or
\* adfuller is called with the clamped lag and returns or raises
\* (RuntimeError); on return progress becomes 0.9
Test(t) ==
  /\ wpc[t] = "test"
  /\ LET p == Params(t)
         n == series[t].len - series[t].nan
         err == TestStationarityError(n, p.regression, p.max_lags,
                                      p.lags_method)
         call == [n |-> n, maxlag |-> ClampLags(p.max_lags, n)] IN
       \/ /\ err # None
          /\ Raise(t)
          /\ UNCHANGED <<TASKS, adf>>
       \/ /\ err = None
          /\ adf' = [adf EXCEPT ![t] = Append(@, call)]
          /\ \/ /\ Raise(t)
                /\ UNCHANGED TASKS
             \/ /\ TASKS' = SetTask(TASKS, t, [progress |-> 9])
                /\ wpc' = [wpc EXCEPT ![t] = "summarize"]
                /\ UNCHANGED TASKS_SEM
  /\ UNCHANGED <<cpc, resp, series, reply, clock, sync>>

\* the result dictionary of the worker
BuildResult(p, n, call) ==
  [status |-> "success", analysis_type |-> p.analysis_type,
   file_path |-> FilePath(p), file_type |-> FileType(p),
   data_summary |-> [time_series_length |-> n],
   adf_result |-> [regression_type |-> p.regression,
                   lags_method |-> p.lags_method,
                   data_length |-> call.n, max_lags |-> call.maxlag]]

\* the last update without the progress
SummarizeNoProgress(t) ==
  /\ wpc[t] = "summarize"
  /\ TASKS' = SetTask(TASKS, t,
       [status |-> "succeeded", completed_at |-> NowIso,
        result |-> BuildResult(Params(t), series[t].len,
                               adf[t][Len(adf[t])])])
  /\ wpc' = [wpc EXCEPT ![t] = "exit"]
  /\ UNCHANGED <<TASKS_SEM, cpc, resp, series, adf, reply, clock, sync>>

\* the result is built and stored with the last update
Summarize(t) ==
  /\ wpc[t] = "summarize"
  /\ TASKS' = SetTask(TASKS, t,
       [status |-> "succeeded", progress |-> 10, completed_at |-> NowIso,
        result |-> BuildResult(Params(t), series[t].len,
                               adf[t][Len(adf[t])])])
  /\ wpc' = [wpc EXCEPT ![t] = "exit"]
  /\ UNCHANGED <<TASKS_SEM, cpc, resp, series, adf, reply, clock, sync>>

\* an end of the with block that keeps the slot
ExitNoRelease(t) ==
  /\ wpc[t] = "exit"
  /\ TASKS_SEM' = TASKS_SEM
  /\ wpc' = [wpc EXCEPT ![t] = "done"]
  /\ series' = [series EXCEPT ![t] = NoSeries]
  /\ UNCHANGED <<TASKS, cpc, resp, adf, reply, clock, sync>>

\* with TASKS_SEM: __exit__ on the normal and early-return paths
Exit(t) ==
  /\ wpc[t] = "exit"
  /\ TASKS_SEM' = TASKS_SEM + 1
  /\ wpc' = [wpc EXCEPT ![t] = "done"]
  /\ series' = [series EXCEPT ![t] = NoSeries]
  /\ UNCHANGED <<TASKS, cpc, resp, adf, reply, clock, sync>>

\* an except clause that swallows the exception
ExceptPass(t) ==
  /\ wpc[t] = "except"
  /\ wpc' = [wpc EXCEPT ![t] = "done"]
  /\ series' = [series EXCEPT ![t] = NoSeries]
  /\ UNCHANGED <<TASKS, TASKS_SEM, cpc, resp, adf, reply, clock, sync>>

\* an except clause that puts the progress back to zero
ExceptResetProgress(t) ==
  /\ wpc[t] = "except"
  /\ TASKS' = SetTask(TASKS, t, [status |-> "failed", completed_at |-> NowIso,
                                 error |-> "exception", traceback |-> "tb",
                                 progress |-> 0])
  /\ wpc' = [wpc EXCEPT ![t] = "done"]
  /\ series' = [series EXCEPT ![t] = NoSeries]
  /\ UNCHANGED <<TASKS_SEM, cpc, resp, adf, reply, clock, sync>>

\* an except clause that records no traceback
ExceptNoTraceback(t) ==
  /\ wpc[t] = "except"
  /\ TASKS' = SetTask(TASKS, t, [status |-> "failed", completed_at |-> NowIso,
                                 error |-> "exception"])
  /\ wpc' = [wpc EXCEPT ![t] = "done"]
  /\ series' = [series EXCEPT ![t] = NoSeries]
  /\ UNCHANGED <<TASKS_SEM, cpc, resp, adf, reply, clock, sync>>

\* except Exception as ex
Except(t) ==
  /\ wpc[t] = "except"
  /\ TASKS' = SetTask(TASKS, t, [status |-> "failed", completed_at |-> NowIso,
                                 error |-> "exception", traceback |-> "tb"])
  /\ wpc' = [wpc EXCEPT ![t] = "done"]
  /\ series' = [series EXCEPT ![t] = NoSeries]
  /\ UNCHANGED <<TASKS_SEM, cpc, resp, adf, reply, clock, sync>>

\* ------------------------------------------------------- query endpoints
QueryIds == 0..MaxPolled

\* a lookup that also writes the record it reads
GetTaskWrites(task_id) ==
  /\ reply' = [op |-> "get_task", task_id |-> task_id,
               rec |-> GetTaskRec(TASKS, task_id)]
  /\ TASKS' = SetTask(TASKS, task_id, [progress |-> 0])
  /\ UNCHANGED <<TASKS_SEM, cpc, resp, wpc, series, adf, clock, sync>>

GetTask(task_id) ==
  /\ reply' = [op |-> "get_task", task_id |-> task_id,
               rec |-> GetTaskRec(TASKS, task_id)]
  /\ UNCHANGED <<TASKS, TASKS_SEM, cpc, resp, wpc, series, adf, clock, sync>>

ListTasks ==
  /\ reply' = [op |-> "list_tasks", count |-> Len(ListTaskRecs(TASKS)),
               tasks |-> ListTaskRecs(TASKS)]
  /\ UNCHANGED <<TASKS, TASKS_SEM, cpc, resp, wpc, series, adf, clock, sync>>

\* ------------------------------------------- a caller in the same process
\* _get_task and _list_tasks copy a record with dict(t): the copy is a new
\* dictionary whose values are the objects of the registry's record, so
\* its params (and its result, once set) are the very dictionaries the
\* registry holds.  The ids of the records the caller was handed last:
HandedOut ==
  IF reply.op = "get_task"
    THEN (IF reply.rec = Empty THEN {} ELSE {reply.rec.id})
  ELSE IF reply.op = "list_tasks" THEN DOMAIN reply.tasks
  ELSE {}

HandedRec(i) == IF reply.op = "get_task" THEN reply.rec ELSE reply.tasks[i]

ReplyWith(i, rec) ==
  IF reply.op = "get_task" THEN [reply EXCEPT !.rec = rec]
  ELSE [reply EXCEPT !.tasks[i] = rec]

\* the caller assigns a key of the record it was handed, rec["status"] = ..:
\* the copy alone changes
CallerSetsField(i) ==
  /\ i \in HandedOut
  /\ HandedRec(i).status # "tampered"
  /\ reply' = ReplyWith(i, [HandedRec(i) EXCEPT !.status = "tampered"])
  /\ UNCHANGED <<TASKS, TASKS_SEM, cpc, resp, wpc, series, adf, clock, sync>>

\* the caller assigns inside a nested dictionary of the record it was
\* handed, rec["params"]["regression"] = .. or rec["result"]["status"] = ..:
\* the dictionary is the registry's own
CallerSetsNested(i) ==
  /\ i \in HandedOut
  /\ \/ /\ TASKS[i].params.regression # "tampered"
        /\ TASKS' = [TASKS EXCEPT ![i].params.regression = "tampered"]
        /\ reply' = ReplyWith(i, [HandedRec(i) EXCEPT
                                    !.params.regression = "tampered"])
     \/ /\ HandedRec(i).result # NoResult
        /\ TASKS[i].result.status # "tampered"
        /\ TASKS' = [TASKS EXCEPT ![i].result.status = "tampered"]
        /\ reply' = ReplyWith(i, [HandedRec(i) EXCEPT
                                    !.result.status = "tampered"])
  /\ UNCHANGED <<TASKS_SEM, cpc, resp, wpc, series, adf, clock, sync>>

\* ----------------------------------------------------------------- clock
\* time passes between two steps of the program
Tick ==
  /\ clock < MaxClock
  /\ clock' = clock + 1
  /\ UNCHANGED <<TASKS, TASKS_SEM, cpc, resp, wpc, series, adf, reply, sync>>

\* -------------------------------------------------------- specification
Worker(t) ==
  \/ Acquire(t)
  \/ SetRunning(t)
  \/ Resolve(t)
  \/ Load(t)
  \/ Validate(t)
  \/ Test(t)
  \/ Summarize(t)
  \/ Exit(t)
  \/ Except(t)

Next ==
  \/ \E p \in Requests : Submit(p)
  \/ \E t \in TaskIds : SubmitReject(t)
  \/ \E t \in TaskIds : SubmitStart(t)
  \/ \E t \in TaskIds : Worker(t)

Spec == Init /\ [][Next]_vars

\* many submissions of the core requests: the workers contend for the
\* slots of the limiter
NextLoad ==
  \/ \E p \in CoreRequests : SubmitLoad(p)
  \/ \E t \in TaskIds : SubmitReject(t)
  \/ \E t \in TaskIds : SubmitStart(t)
  \/ \E t \in TaskIds : Worker(t)

SpecLoad == Init /\ [][NextLoad]_vars

\* the same program with a client that queries the registry
NextQ ==
  \/ \E p \in CoreRequests : SubmitPolled(p)
  \/ \E t \in TaskIds : SubmitReject(t)
  \/ \E t \in TaskIds : SubmitStart(t)
  \/ \E t \in TaskIds : Worker(t)
  \/ \E i \in QueryIds : GetTask(i)
  \/ ListTasks

SpecQ == Init /\ [][NextQ]_vars

\* worker threads are scheduled fairly: a thread that can take its next
\* step (for Acquire: while a slot is free) eventually takes one
FairSpec ==
  Init /\ [][NextLoad]_vars /\ \A t \in TaskIds : WF_vars(Worker(t))

\* the program with time passing: in the other specifications the clock
\* stands still
NextClock ==
  \/ \E p \in CoreRequests : SubmitTimed(p)
  \/ \E t \in TaskIds : SubmitReject(t)
  \/ \E t \in TaskIds : SubmitStart(t)
  \/ \E t \in TaskIds : Worker(t)
  \/ Tick

SpecClock == Init /\ [][NextClock]_vars

\* the program with a client in the same process that queries the registry
\* and writes into the records it is handed
NextCaller ==
  \/ \E p \in CoreRequests : SubmitHanded(p)
  \/ \E t \in TaskIds : SubmitReject(t)
  \/ \E t \in TaskIds : SubmitStart(t)
  \/ \E t \in TaskIds : Worker(t)
  \/ \E i \in QueryIds : GetTask(i)
  \/ ListTasks
  \/ \E i \in TaskIds : CallerSetsField(i)
  \/ \E i \in TaskIds : CallerSetsNested(i)

SpecCaller == Init /\ [][NextCaller]_vars

\* a client that makes one call of a synchronous tool (adf_test,
\* adf_batch_test or adf_interpret); these tools touch neither the
\* registry nor the limiter, so a call is one step
NextSync ==
  \/ \E data \in Lists, regression \in {"c", "ct", "x"},
        max_lags \in {-1, 0, 2, 5, 10},
        lags_method \in {"aic", "t-stat", "t"},
        ret \in AdfullerOutcomes :
       AdfTest(data, regression, max_lags, lags_method, ret)
  \/ \E data_dict \in DataDicts, regression \in {"c", "x"},
        max_lags \in {-1, 10}, lags_method \in {"aic", "t"},
        raising \in SUBSET SeriesNames :
       AdfBatchTest(data_dict, regression, max_lags, lags_method,
                    [name \in SeriesNames |->
                       IF name \in raising THEN [raises |-> TRUE]
                       ELSE [raises |-> FALSE, statistic |-> -4,
                             p_value |-> 1, lags_used |-> 0]])
  \/ \E statistic \in {-4, -1}, p_value \in {1, 20},
        critical_values \in CriticalValues, regression \in {"c", "x"} :
       AdfInterpret(statistic, p_value, critical_values, regression)

SpecSync == Init /\ [][NextSync]_vars

\* ================================================================ claims
Terminal == {"succeeded", "failed"}

Status(t) == TASKS[t].status

\* the worker of t is inside its with block: it holds a slot
Holding(t) ==
  wpc[t] \in {"set_running", "resolve", "load", "validate", "test",
              "summarize", "exit"}

\* the worker of t has acquired a slot at some moment
Acquired(t) == Holding(t) \/ wpc[t] \in {"except", "done"}

RunningTasks == { t \in DOMAIN TASKS : Status(t) = "running" }

HeldSlots == MAX_CONCURRENT - TASKS_SEM

\* C1 (as stated): in every reachable state the number of task records
\* whose status is running is at most the limiter capacity.
C1_RunningAtMostCapacity == Cardinality(RunningTasks) <= MAX_CONCURRENT

\* C2: the status of a record starts as queued and only moves queued ->
\* running -> succeeded | failed; nothing leaves succeeded or failed; queued
\* goes directly to failed only in the rejecting submission call, for a
\* task that never has a worker.
C2_StatusSteps ==
  [][ /\ \A t \in DOMAIN TASKS' \ DOMAIN TASKS : TASKS'[t].status = "queued"
      /\ \A t \in DOMAIN TASKS :
           LET a == TASKS[t].status
               b == TASKS'[t].status IN
             a # b =>
               \/ a = "queued" /\ b = "running"
               \/ a = "running" /\ b \in Terminal
               \/ /\ a = "queued" /\ b = "failed"
                  /\ cpc[t] = "reject" /\ cpc'[t] = "returned"
                  /\ wpc[t] = "none" /\ wpc'[t] = "none" ]_vars

C2_Witness ==
  \E t, u \in DOMAIN TASKS :
    /\ Status(t) \in Terminal /\ wpc[t] = "done"
    /\ Status(u) = "failed" /\ wpc[u] = "none"

\* a file argument counts as set when it is a non-empty string
ArgSet(s) == s # None /\ s # ""

\* the submissions C3 is about: both arguments set, neither set, or the
\* path named does not exist
RejectedRequest(p) ==
  \/ ArgSet(p.csv) /\ ArgSet(p.txt)
  \/ ~ArgSet(p.csv) /\ ~ArgSet(p.txt)
  \/ ArgSet(p.csv) /\ p.csv \notin ExistingPaths
  \/ ~ArgSet(p.csv) /\ ArgSet(p.txt) /\ p.txt \notin ExistingPaths

\* C3: such a submission never has a worker (so never a slot), and when
\* its call has returned the response is failed, names the task, and the
\* record is failed with error and completed_at set, started_at and result
\* absent.
C3_RejectedImmediately ==
  \A t \in DOMAIN TASKS :
    RejectedRequest(TASKS[t].params) =>
      /\ wpc[t] = "none"
      /\ cpc[t] = "returned" =>
           /\ resp[t].status = "failed"
           /\ resp[t].task_id = t
           /\ TASKS[t].id = t
           /\ TASKS[t].status = "failed"
           /\ TASKS[t].error # None
           /\ TASKS[t].completed_at # None
           /\ TASKS[t].started_at = None
           /\ TASKS[t].result = NoResult

C3_Witness ==
  /\ Len(TASKS) = 2
  /\ \A t \in DOMAIN TASKS :
       RejectedRequest(TASKS[t].params) /\ cpc[t] = "returned"
  /\ \E t \in DOMAIN TASKS :
       ArgSet(TASKS[t].params.csv) /\ ArgSet(TASKS[t].params.txt)
  /\ \E t \in DOMAIN TASKS : TASKS[t].error = "file_not_found"

\* the request of t has an unrecognized regression or lag-selection value
BadEnum(p) ==
  p.regression \notin {"n", "c", "ct"} \/ p.lags_method \notin {"aic", "bic", "t-stat"}

\* the series loaded for t is too short, before or after the NaN removal
ShortSeries(t) ==
  /\ wpc[t] = "validate"
  /\ series[t].len < 10 \/ series[t].len - series[t].nan < 10

\* C4 (as stated): no worker holds a slot for a request that fails
\* validation (file arguments, file not found, series too short,
\* unrecognized regression or lag-selection value).
C4_NoSlotForInvalid ==
  \A t \in DOMAIN TASKS :
    (RejectedRequest(TASKS[t].params) \/ BadEnum(TASKS[t].params) \/ ShortSeries(t))
      => ~Holding(t)

\* C4 (amended): file-argument errors and a missing file are reported by
\* the submission call and never take a slot; an unrecognized regression or
\* lag-selection value and a series that is too short are not checked by
\* the call: it answers queued, and the failure is recorded only by the
\* worker, which has acquired a slot by then; adfuller is never reached.
C4_ValidationSplit ==
  \A t \in DOMAIN TASKS :
    LET p == TASKS[t].params IN
      /\ RejectedRequest(p) =>
           /\ ~Acquired(t)
           /\ cpc[t] = "returned" => resp[t].status = "failed"
      /\ (~RejectedRequest(p) /\ BadEnum(p)) =>
           /\ cpc[t] = "returned" => resp[t].status = "queued"
           /\ Status(t) # "succeeded"
           /\ adf[t] = <<>>
           /\ Status(t) = "failed" =>
                Acquired(t) /\ TASKS[t].error \in {"exception", "timestamp_col", "value_col", "len", "valid_len"}
      /\ TASKS[t].error \in {"len", "valid_len"} =>
           /\ resp[t].status = "queued"
           /\ Acquired(t)
           /\ adf[t] = <<>>

C4_Witness ==
  \E t, u \in DOMAIN TASKS :
    /\ BadEnum(TASKS[t].params) /\ Status(t) = "failed"
    /\ TASKS[t].traceback # None /\ wpc[t] = "done"
    /\ TASKS[u].error = "valid_len" /\ Holding(u)

InPipeline == { t \in TaskIds : Holding(t) }

AllTerminal == \A t \in DOMAIN TASKS : Status(t) \in Terminal

\* C5 (as stated): the number of held slots equals the number of workers
\* inside the pipeline, never exceeds capacity, and is zero whenever every
\* submitted task is terminal.
C5_SlotsReleased ==
  /\ HeldSlots = Cardinality(InPipeline)
  /\ HeldSlots <= MAX_CONCURRENT
  /\ AllTerminal => HeldSlots = 0

\* C5 (amended): the number of held slots equals the number of workers
\* inside the with block and never exceeds capacity; it is zero whenever
\* every submitted task is terminal and no worker is between its last
\* registry update and the end of its with block; and it is zero when
\* every worker has finished.
C5_SlotsBalanced ==
  /\ HeldSlots = Cardinality(InPipeline)
  /\ HeldSlots >= 0
  /\ HeldSlots <= MAX_CONCURRENT
  /\ (AllTerminal /\ \A t \in TaskIds : wpc[t] # "exit") => HeldSlots = 0
  /\ (\A t \in TaskIds : wpc[t] \in {"none", "done"}) => HeldSlots = 0

C5_Witness ==
  /\ Len(TASKS) = 3
  /\ HeldSlots = 0
  /\ \E t, u, v \in DOMAIN TASKS :
       /\ Status(t) = "succeeded" /\ wpc[t] = "done"
       /\ TASKS[u].error = "len" /\ wpc[u] = "done"
       /\ TASKS[v].traceback # None /\ wpc[v] = "done"

\* the submission call of t has answered queued
Acknowledged(t) == resp[t] # Empty /\ resp[t].status = "queued"

\* C6: under fair scheduling of the workers every task acknowledged as
\* queued eventually is succeeded or failed.  An acknowledgement is never
\* withdrawn, so this is: from some moment on, every acknowledged task is
\* (and stays) succeeded or failed.
C6_EventuallyTerminal ==
  /\ [][\A t \in TaskIds : Acknowledged(t) => Acknowledged(t)']_vars
  /\ <>[](\A t \in TaskIds :
            Acknowledged(t) => (t \in DOMAIN TASKS /\ Status(t) \in Terminal))

C6_Witness ==
  \E t, u, v \in DOMAIN TASKS :
    /\ t # u
    /\ Holding(t) /\ Holding(u)
    /\ Acknowledged(v) /\ wpc[v] = "acquire" /\ Status(v) = "queued"

\* C7: result is set only on a succeeded record, error and traceback only
\* on a failed one, never result and error together, and none of the three
\* while the record is queued or running.
C7_ResultErrorExclusive ==
  \A t \in DOMAIN TASKS :
    LET r == TASKS[t] IN
      /\ r.result # NoResult => r.status = "succeeded"
      /\ r.error # None => r.status = "failed"
      /\ r.traceback # None => r.status = "failed"
      /\ ~(r.result # NoResult /\ r.error # None)
      /\ r.status \in {"queued", "running"} =>
           r.result = NoResult /\ r.error = None /\ r.traceback = None

C7_Witness ==
  \E t, u \in DOMAIN TASKS :
    /\ Status(t) = "succeeded" /\ TASKS[t].result # NoResult
    /\ Status(u) = "failed" /\ TASKS[u].traceback # None

\* the id was returned by a submission call that has answered
Returned(i) == \E t \in TaskIds : resp[t] # Empty /\ resp[t].task_id = i

\* C8: a task id a submission has returned is in the registry; every
\* get_task answered for it from then on is a non-empty record of that id;
\* and a worker is started only for a record that is in the registry with
\* status queued.
C8_VisibleOnceReturned ==
  /\ [](\A t \in TaskIds :
          resp[t] # Empty =>
            /\ resp[t].task_id \in DOMAIN TASKS
            /\ TASKS[resp[t].task_id].id = resp[t].task_id)
  /\ [][ /\ (reply' # reply /\ reply'.op = "get_task"
                /\ Returned(reply'.task_id)) =>
              /\ reply'.rec # Empty
              /\ reply'.rec.id = reply'.task_id
         /\ \A t \in TaskIds :
              (wpc[t] = "none" /\ wpc'[t] # "none") =>
                t \in DOMAIN TASKS /\ TASKS[t].status = "queued" ]_vars

C8_Witness ==
  /\ reply.op = "get_task"
  /\ reply.rec # Empty
  /\ Acknowledged(reply.task_id)
  /\ reply.rec.status = "running"
  /\ \E u \in TaskIds : cpc[u] = "start"

\* C9: the submission call never waits for the limiter: whatever the
\* semaphore holds, a further request can be taken and a call that has
\* created its record can finish; the accepted path answers queued with the
\* id of its record and leaves the semaphore alone.
C9_SubmitNeverBlocks ==
  /\ [](/\ Len(TASKS) < MaxLoad => \A p \in Requests : ENABLED SubmitLoad(p)
        /\ \A t \in TaskIds :
             /\ cpc[t] = "start" => ENABLED SubmitStart(t)
             /\ cpc[t] = "reject" => ENABLED SubmitReject(t))
  /\ [][ \A t \in TaskIds :
           (cpc[t] = "start" /\ cpc'[t] = "returned") =>
             /\ resp'[t] = [status |-> "queued", task_id |-> t,
                            type |-> "adf_analyze_file"]
             /\ wpc'[t] = "acquire"
             /\ TASKS_SEM' = TASKS_SEM ]_vars

C9_Witness ==
  /\ TASKS_SEM = 0
  /\ \E t, u, v \in TaskIds :
       /\ t # u /\ Holding(t) /\ Holding(u)
       /\ Status(t) = "running" /\ Status(u) = "running"
       /\ Acknowledged(v) /\ wpc[v] = "acquire"

\* C10: a get_task answered for an id that is not in the registry (no
\* submission has made it) is the empty record, and the registry is left as
\* it was.
C10_UnknownIdEmpty ==
  [][ (reply' # reply /\ reply'.op = "get_task"
         /\ reply'.task_id \notin DOMAIN TASKS) =>
        /\ reply'.rec = Empty
        /\ TASKS' = TASKS ]_vars

C10_Witness ==
  /\ reply.op = "get_task"
  /\ reply.task_id = 2
  /\ reply.rec = Empty
  /\ Len(TASKS) = 1
  /\ Status(1) = "running"

\* the critical values name the 1%, 5% and 10% levels
FullCriticalValues(cv) == {"1%", "5%", "10%"} \subseteq DOMAIN cv

\* C11 (as stated): adf_interpret, given a statistic, a p-value, critical
\* values for the 1%, 5% and 10% levels and a regression kind, answers
\* success with an interpretation.
C11_InterpretSucceeds ==
  (sync.op = "adf_interpret" /\ FullCriticalValues(sync.critical_values)) =>
    /\ sync.out.status = "success"
    /\ "interpretation" \in DOMAIN sync.out

\* the list is shorter than ten before or after its NaN entries are removed
TooShort(data) == data.len < 10 \/ data.len - data.nan < 10

\* C12: adf_test on a series shorter than ten, before or after the NaN
\* removal, answers failed and adfuller is not called.
C12_ShortSeriesFails ==
  (sync.op = "adf_test" /\ TooShort(sync.data)) =>
    /\ sync.out.status = "failed"
    /\ sync.calls = <<>>

C12_Witness ==
  /\ sync.op = "adf_test"
  /\ sync.data.len >= 10 /\ sync.data.len - sync.data.nan < 10
  /\ sync.regression = "c" /\ sync.lags_method = "aic" /\ sync.max_lags = 10
  /\ ~sync.ret.raises
  /\ sync.out.status = "failed"

\* the errors of the validation of the arguments
ValidationErrors == {"len", "regression", "lags_method", "max_lags"}

C14_BatchIndependent ==
  (sync.op = "adf_batch_test" /\ DOMAIN sync.data_dict # {}) =>
    /\ sync.out.status = "success"
    /\ DOMAIN sync.out.results = DOMAIN sync.data_dict
    /\ \A name \in DOMAIN sync.data_dict :
         LET data == sync.data_dict[name]
             alone == AdfTestResponse(data, sync.regression, sync.max_lags,
                                      sync.lags_method, sync.rets[name]) IN
           /\ sync.out.results[name].status \in {"success", "failed"}
           /\ sync.out.results[name].status = "failed" <=>
                \/ TooShort(data)
                \/ BadEnum(sync) \/ sync.max_lags < 0
                \/ sync.rets[name].raises
           /\ sync.out.results[name].status = alone.out.status
           /\ sync.calls[name] = alone.calls
    /\ \A name, other \in DOMAIN sync.data_dict :
         ( /\ sync.data_dict[other].len = 9
           /\ sync.data_dict[name] = [len |-> 12, nan |-> 0]
           /\ ~BadEnum(sync) /\ sync.max_lags >= 0
           /\ ~sync.rets[name].raises ) =>
             /\ sync.out.results[other].status = "failed"
             /\ sync.out.results[name].status = "success"
             /\ sync.out.results[name].result.data_length = 12

C14_Witness ==
  /\ sync.op = "adf_batch_test"
  /\ DOMAIN sync.data_dict = {"a", "b"}
  /\ sync.data_dict["a"].len = 9
  /\ sync.data_dict["b"] = [len |-> 12, nan |-> 0]
  /\ sync.out.results["a"].status = "failed"
  /\ sync.out.results["b"].status = "success"

\* a step of the caller that writes into a record it was handed
CallerWrites == \E i \in TaskIds : CallerSetsField(i) \/ CallerSetsNested(i)

\* C15 (as stated): the records get_task and list_tasks return are
\* independent copies: a registry update changes no value of a record
\* already handed out (its nested params and result included), and a
\* change the caller makes to a returned record changes nothing of what
\* get_task and list_tasks return afterwards.
C15_IndependentCopies ==
  [][ /\ (TASKS' # TASKS /\ ~CallerWrites) => reply' = reply
      /\ CallerWrites =>
           /\ ListTaskRecs(TASKS') = ListTaskRecs(TASKS)
           /\ \A i \in QueryIds :
                GetTaskRec(TASKS', i) = GetTaskRec(TASKS, i) ]_vars

\* the fields of a record agree with its status
Settled(rec) ==
  /\ rec.status = "succeeded" =>
       rec.result # NoResult /\ rec.completed_at # None /\ rec.progress = 10
  /\ rec.status = "failed" => rec.error # None /\ rec.completed_at # None
  /\ rec.status = "running" => rec.started_at # None

\* C16: every record get_task or list_tasks has returned is settled: a
\* succeeded one has its result, completed_at and progress 1.0, a failed
\* one its error and completed_at, a running one its started_at.
C16_NoTornRecord ==
  /\ (reply.op = "get_task" /\ reply.rec # Empty) => Settled(reply.rec)
  /\ reply.op = "list_tasks" =>
       \A i \in DOMAIN reply.tasks : Settled(reply.tasks[i])

C16_Witness ==
  /\ reply.op = "list_tasks"
  /\ reply.count = 2
  /\ \E i, j \in DOMAIN reply.tasks :
       /\ reply.tasks[i].status = "succeeded"
       /\ reply.tasks[j].status = "running"

\* C17: on every succeeded task the length in the data summary of the
\* result, the length of the series given to adfuller and the data_length
\* of the test result are the same number.
C17_LengthsAgree ==
  \A t \in DOMAIN TASKS :
    Status(t) = "succeeded" =>
      /\ Len(adf[t]) = 1
      /\ TASKS[t].result.data_summary.time_series_length = adf[t][1].n
      /\ TASKS[t].result.adf_result.data_length = adf[t][1].n

C17_Witness ==
  \E t \in DOMAIN TASKS :
    /\ Status(t) = "succeeded"
    /\ TASKS[t].result.data_summary.time_series_length = 10
    /\ wpc[t] = "done"

\* the calls of adf_analyze_file that have created their record
Calls == { t \in TaskIds : cpc[t] # "idle" }

\* C18: no record is ever removed and no id changes or repeats; what
\* list_tasks returns has one record for every adf_analyze_file call made
\* so far, accepted or rejected, with pairwise distinct ids, and its count
\* is the number of records.
C18_OneRecordPerCall ==
  /\ [](reply.op = "list_tasks" =>
          /\ reply.count = Len(reply.tasks)
          /\ \A i, j \in DOMAIN reply.tasks :
               i # j => reply.tasks[i].id # reply.tasks[j].id)
  /\ [][ /\ DOMAIN TASKS \subseteq DOMAIN TASKS'
         /\ \A t \in DOMAIN TASKS : TASKS'[t].id = TASKS[t].id
         /\ (reply' # reply /\ reply'.op = "list_tasks") =>
              /\ reply'.count = Cardinality(Calls)
              /\ { reply'.tasks[i].id : i \in DOMAIN reply'.tasks } = Calls
       ]_vars

C18_Witness ==
  /\ reply.op = "list_tasks"
  /\ reply.count = 2
  /\ \E i, j \in DOMAIN reply.tasks :
       /\ reply.tasks[i].error = "file_args"
       /\ reply.tasks[j].status = "succeeded"

\* updates _set_task is called with
SampleUpdates ==
  { [progress |-> 5],
    [status |-> "failed", error |-> "e", completed_at |-> "t0"] }

\* C19: _set_task for an id changes only the named fields of that record
\* and no other record, and for an unknown id it changes nothing; every
\* step of the program changes at most the record of the task that takes
\* it; the step that makes a task failed changes no other record, moves no
\* other thread and takes no slot, and a worker waiting for a slot can
\* take one whenever fewer than MAX_CONCURRENT workers are inside the
\* pipeline, whatever has failed before.
C19_UpdateIsolated ==
  /\ [](\A upd \in SampleUpdates :
          /\ \A i \in (0..(Len(TASKS) + 1)) \ DOMAIN TASKS :
               SetTask(TASKS, i, upd) = TASKS
          /\ \A t \in DOMAIN TASKS :
               LET T == SetTask(TASKS, t, upd) IN
                 /\ DOMAIN T = DOMAIN TASKS
                 /\ \A u \in DOMAIN TASKS \ {t} : T[u] = TASKS[u]
                 /\ \A f \in DOMAIN TASKS[t] :
                      T[t][f] = IF f \in DOMAIN upd THEN upd[f]
                                ELSE TASKS[t][f])
  /\ [](\A u \in TaskIds :
          (wpc[u] = "acquire" /\ Cardinality(InPipeline) < MAX_CONCURRENT)
            => ENABLED Acquire(u))
  /\ [][ \A t \in DOMAIN TASKS :
           /\ TASKS'[t] # TASKS[t] =>
                /\ \A u \in DOMAIN TASKS \ {t} : TASKS'[u] = TASKS[u]
                /\ DOMAIN TASKS' = DOMAIN TASKS
                /\ cpc'[t] # cpc[t] \/ wpc'[t] # wpc[t]
           /\ (Status(t) # "failed" /\ TASKS'[t].status = "failed") =>
                /\ \A u \in TaskIds \ {t} :
                     wpc'[u] = wpc[u] /\ cpc'[u] = cpc[u]
                /\ TASKS_SEM' >= TASKS_SEM ]_vars

C19_Witness ==
  \E t, u, v \in DOMAIN TASKS :
    /\ u # v
    /\ TASKS[t].traceback # None /\ wpc[t] = "done"
    /\ Holding(u) /\ Status(u) = "running"
    /\ Holding(v) /\ Status(v) = "running"

\* the reading of the clock a timestamp was made from
TimeOf(stamp) == CHOOSE n \in 0..MaxClock : IsoFormat(n) = stamp

Stamps == {"created_at", "started_at", "completed_at"}

\* C20: created_at is set from the creation of the record; started_at is
\* set exactly on the records that have been running and completed_at
\* exactly on the succeeded and failed ones; a timestamp that is set is
\* never changed; started_at is written in the step that makes the task
\* running and completed_at in the step that makes it succeeded or failed;
\* the timestamps present are in the order created, started, completed.
C20_TimestampsOnce ==
  /\ [](\A t \in DOMAIN TASKS :
          LET r == TASKS[t] IN
            /\ r.created_at # None
            /\ r.started_at # None <=>
                 (r.status = "running" \/ (r.status \in Terminal /\ Acquired(t)))
            /\ r.completed_at # None <=> r.status \in Terminal
            /\ r.started_at # None =>
                 TimeOf(r.created_at) <= TimeOf(r.started_at)
            /\ r.completed_at # None =>
                 /\ TimeOf(r.created_at) <= TimeOf(r.completed_at)
                 /\ r.started_at # None =>
                      TimeOf(r.started_at) <= TimeOf(r.completed_at))
  /\ [][ \A t \in DOMAIN TASKS :
           /\ \A f \in Stamps : TASKS[t][f] # None => TASKS'[t][f] = TASKS[t][f]
           /\ (TASKS[t].started_at = None /\ TASKS'[t].started_at # None) <=>
                (Status(t) = "queued" /\ TASKS'[t].status = "running")
           /\ (TASKS[t].completed_at = None /\ TASKS'[t].completed_at # None)
                <=> (Status(t) \notin Terminal /\ TASKS'[t].status \in Terminal)
       ]_vars

C20_Witness ==
  \E t \in DOMAIN TASKS :
    /\ Status(t) = "succeeded" /\ wpc[t] = "done"
    /\ TimeOf(TASKS[t].created_at) < TimeOf(TASKS[t].started_at)
    /\ TimeOf(TASKS[t].started_at) < TimeOf(TASKS[t].completed_at)

\* the values of progress, in tenths, in the order of the code
Checkpoints == <<0, 1, 2, 5, 7, 9, 10>>

\* C21: progress is one of the checkpoints 0.0, 0.1, 0.2, 0.5, 0.7, 0.9,
\* 1.0, hence within [0.0, 1.0]; a step that changes it moves it to the
\* next checkpoint; the step that makes a task failed leaves it as it is,
\* and so does every step after the task is succeeded or failed.
C21_ProgressMonotone ==
  /\ [](\A t \in DOMAIN TASKS :
          /\ TASKS[t].progress >= 0 /\ TASKS[t].progress <= 10
          /\ \E k \in DOMAIN Checkpoints : Checkpoints[k] = TASKS[t].progress)
  /\ [][ \A t \in DOMAIN TASKS :
           LET a == TASKS[t].progress
               b == TASKS'[t].progress IN
             /\ a <= b
             /\ a # b => \E k \in 1..(Len(Checkpoints) - 1) :
                           Checkpoints[k] = a /\ Checkpoints[k + 1] = b
             /\ TASKS'[t].status = "failed" => b = a
             /\ Status(t) \in Terminal => b = a ]_vars

C21_Witness ==
  \E t, u \in DOMAIN TASKS :
    /\ Status(t) = "failed" /\ TASKS[t].progress = 7
    /\ TASKS[t].traceback # None
    /\ Status(u) = "succeeded" /\ TASKS[u].progress = 10

\* the errors of the explicit exits: pre-validation, missing column, length
DataErrors ==
  {"file_args", "file_not_found", "timestamp_col", "value_col", "len",
   "valid_len"}

C23_ShortSeriesPipeline ==
  /\ [](\A t \in DOMAIN TASKS :
          /\ TASKS[t].error \in {"len", "valid_len"} =>
               /\ Status(t) = "failed"
               /\ TASKS[t].result = NoResult
               /\ adf[t] = <<>>
          /\ \A k \in DOMAIN adf[t] : adf[t][k].n >= 10)
  /\ [][ \A t \in DOMAIN TASKS :
           /\ ( /\ wpc[t] = "validate" /\ wpc'[t] # "validate"
                /\ TooShort(series[t]) ) =>
                /\ adf'[t] = <<>>
                /\ TASKS'[t].result = NoResult
                /\ \/ wpc'[t] = "except"
                   \/ /\ wpc'[t] = "exit"
                      /\ TASKS'[t].status = "failed"
                      /\ TASKS'[t].error \in {"len", "valid_len"}
           /\ adf'[t] # adf[t] =>
                /\ wpc[t] = "test"
                /\ series[t].len >= 10 /\ series[t].nan = 0 ]_vars

C23_Witness ==
  \E t, u \in DOMAIN TASKS :
    /\ TASKS[t].error = "valid_len" /\ wpc[t] = "done"
    /\ TASKS[u].error = "len" /\ wpc[u] = "done"

\* the lag h is the smaller of max_lags and floor(n / 2) - 1
Clamped(h, max_lags, n) ==
  LET cap == (n \div 2) - 1 IN
    /\ h <= max_lags /\ h <= cap
    /\ h = max_lags \/ h = cap
    /\ h >= 0 /\ h <= cap

\* C24: adf_test with a negative max_lags answers failed without calling
\* adfuller; every adfuller call made by adf_test or by an item of
\* adf_batch_test is on a cleaned series of n >= 10 entries with max_lags
\* >= 0, and its lag is min(max_lags, floor(n / 2) - 1), which lies in
\* 0 .. floor(n / 2) - 1; with valid arguments the call is made.
C24_LagClamped ==
  /\ (sync.op = "adf_test" /\ sync.max_lags < 0) =>
       sync.out.status = "failed" /\ sync.calls = <<>>
  /\ sync.op = "adf_test" =>
       LET n == sync.data.len - sync.data.nan IN
         /\ sync.calls # <<>> =>
              /\ Len(sync.calls) = 1
              /\ n >= 10 /\ sync.max_lags >= 0
              /\ sync.calls[1].n = n
              /\ Clamped(sync.calls[1].maxlag, sync.max_lags, n)
         /\ (n >= 10 /\ sync.max_lags >= 0 /\ ~BadEnum(sync)) =>
              sync.calls # <<>>
  /\ (sync.op = "adf_batch_test" /\ DOMAIN sync.data_dict # {}) =>
       \A name \in DOMAIN sync.data_dict :
         LET n == sync.data_dict[name].len - sync.data_dict[name].nan IN
           /\ sync.max_lags < 0 => sync.calls[name] = <<>>
           /\ sync.calls[name] # <<>> =>
                /\ n >= 10 /\ sync.max_lags >= 0
                /\ Clamped(sync.calls[name][1].maxlag, sync.max_lags, n)

C24_Witness ==
  /\ sync.op = "adf_test"
  /\ sync.data = [len |-> 13, nan |-> 3]
  /\ sync.max_lags = 10
  /\ sync.calls = <<[n |-> 10, maxlag |-> 4]>>
  /\ sync.out.status = "success"
  /\ sync.out.result.max_lags = 4

C26_FixedFields ==
  /\ [](\A t \in DOMAIN TASKS :
          TASKS[t].id = t /\ TASKS[t].params \in CoreRequests)
  /\ [][ \A t \in DOMAIN TASKS :
           \A f \in {"id", "type", "params", "created_at"} :
             TASKS'[t][f] = TASKS[t][f] ]_vars

\* some thread of the program can take a step
CanStep(t) ==
  ENABLED SubmitReject(t) \/ ENABLED SubmitStart(t) \/ ENABLED Worker(t)

\* C27: with a capacity of at least 1, whenever some task is not
\* succeeded or failed, some thread can take a step, and a worker that
\* waits for a slot can take one or some worker holding a slot can take
\* its next step; get_task and list_tasks can be answered in every state,
\* also when every slot is held and further workers wait.
C27_NoDeadlock ==
  /\ MAX_CONCURRENT >= 1 =>
       /\ (\E t \in DOMAIN TASKS : Status(t) \notin Terminal) =>
            \E t \in TaskIds : CanStep(t)
       /\ \A t \in TaskIds :
            wpc[t] = "acquire" =>
              \/ ENABLED Acquire(t)
              \/ \E u \in TaskIds \ {t} : Holding(u) /\ ENABLED Worker(u)
  /\ ENABLED ListTasks
  /\ \A i \in QueryIds : ENABLED GetTask(i)

C27_Witness ==
  /\ TASKS_SEM = 0
  /\ \E t, u, v \in DOMAIN TASKS :
       /\ t # u /\ wpc[t] = "load" /\ wpc[u] = "validate"
       /\ wpc[v] = "acquire" /\ Status(v) = "queued"
       /\ ~ENABLED Acquire(v)

====
